---- MODULE Spec2Model ----
\* UniPulse backend: the engagement handlers (like toggle, comment, RSVP) and
\* the notification fan-out they trigger, as a state machine whose steps are
\* the awaits of the Express handlers.
\*
\* Store semantics.  The handlers persist through Mongoose documents
\* (findById ... save()).  save() sends the delta of the modified paths:
\*   - an array that was only push()ed is sent as an atomic $push (the version
\*     key __v is incremented, not checked);
\*   - an array path that was assigned (post.likes = ..., event.attendees = ...)
\*     is sent as $set of the whole local array with the filter {__v: loaded
\*     version}; when the stored version moved on, no document matches and
\*     save() rejects with a VersionError.
\* The schemas in src/models do not disable the version key.
EXTENDS Naturals, Integers, Sequences, FiniteSets, TLC

\* ------------------------------------------------------------------ bounds
\* requests of one run when the stores and the socket layer never fail
MaxReq == 4
\* requests of one run when any await may reject
MaxFaultReq == 2
\* RSVP requests of one run in which they are handled one after the other
\* (Express handler), or calls of one run of the NestJS service
MaxRsvpReq == 3
\* RSVP requests of one run in which they overlap
MaxRsvpOverlap == 2
\* like and comment requests of one run that also has inbox requests
MaxInboxReq == 1
\* mark-read, read-all and delete requests of one run
MaxInboxOps == 2
\* the largest page and limit a GET /api/notifications request asks for
MaxPage == 3
MaxLimit == 2
\* socket.io connections of one run
MaxSockets == 2
\* read-all requests, and connections, of one run that watches the unread
\* count around a like request
MaxWatchOps == 1
MaxWatchSockets == 1
MaxBookmarkCalls == 3

\* ------------------------------------------------------------- identifiers
Users == {"u1", "u2"}
PostIds == {"p1"}
\* req.params.id may name no stored post
ParamIds == PostIds \cup {"missing"}
PostAuthor == [p \in PostIds |-> "u1"]
EventIds == {"e1"}
ParamEventIds == EventIds \cup {"missing"}

\* req.body.status: absent, empty, the two values of the schema's enum, and a
\* value outside the enum
NoStatus == "undefined"
Falsy == {NoStatus, ""}
StatusEnum == {"interested", "going"}
BodyStatuses == Falsy \cup StatusEnum \cup {"maybe"}

\* comment content is represented by its length; given = FALSE is a body
\* without a content field
ContentMaxLen == 1000
Contents == {[given |-> FALSE, len |-> 0], [given |-> TRUE, len |-> 0],
             [given |-> TRUE, len |-> 1], [given |-> TRUE, len |-> 1001]}
NoContent == [given |-> FALSE, len |-> 0]

VARIABLES
    posts,          \* Post collection: id -> [author, likes, comments, v]
    notifications,  \* Notification collection, in creation order
    reqs,           \* the requests received so far, in order of arrival:
                    \* handler position, locals and response of each
    events,         \* Event collection: id -> [attendees, v]
    rsvpRows,       \* EventRSVP table of the NestJS service, in creation order
    rsvpCalls,      \* the calls of EventsService.rsvp made so far
    schemaUnique,   \* whether the EventRSVP table has a unique index on
                    \* (userId, eventId): the Prisma schema decides, and
                    \* either may be the case
    nextId,         \* the _id the next created Notification gets
    now,            \* the createdAt of the Notification created last
    inbox,          \* the mark-read, read-all and delete requests handled
                    \* so far: their number, and the last one with its
                    \* response
    fetch,          \* the GET /api/notifications request being handled:
                    \* position, locals and response
    sockets,        \* the socket.io connections accepted so far, in order
                    \* of connection: [connected, rooms, got]
    bookmarks,      \* Bookmark collection, in creation order
    favorites,      \* Favorite table of the NestJS service, in creation order
    marks           \* the bookmark and favorite attempts made so far: their
                    \* number, and the last one with its outcome

vars == <<posts, notifications, reqs, events, rsvpRows, rsvpCalls, schemaUnique,
          nextId, now, inbox, fetch, sockets, bookmarks, favorites, marks>>

bookmarkVars == <<bookmarks, favorites, marks>>

prismaVars == <<rsvpRows, rsvpCalls, schemaUnique>>

inboxVars == <<inbox, fetch>>

restVars == <<nextId, now, inbox, fetch, sockets>>

\* ------------------------------------------------------------ pure helpers
\* Array.prototype.includes on a MongooseArray of ObjectIds
Includes(arr, x) == \E i \in 1..Len(arr) : arr[i] = x

\* arr.filter(e => e.toString() !== x)
FilterOut(arr, x) == SelectSeq(arr, LAMBDA e : e # x)

Count(arr, x) == Len(SelectSeq(arr, LAMBDA e : e = x))

\* the local Mongoose document produced by Post.findById
LoadPost(p) ==
    [author |-> posts[p].author, likes |-> posts[p].likes,
     comments |-> posts[p].comments, v |-> posts[p].v,
     likesOp |-> "none", likesPushed |-> <<>>, commentsPushed |-> <<>>]

NoDoc ==
    [author |-> "u1", likes |-> <<>>, comments |-> <<>>, v |-> 0,
     likesOp |-> "none", likesPushed |-> <<>>, commentsPushed |-> <<>>]

\* const hasLiked = post.likes.includes(req.user.id)
HasLiked(doc, uid) == Includes(doc.likes, uid)

\* post.likes = post.likes.filter(...): the path is assigned as a whole
Unlike(doc, uid) ==
    [doc EXCEPT !.likes = FilterOut(@, uid), !.likesOp = "set"]

\* post.likes.push(req.user.id): an atomic push is registered
Like(doc, uid) ==
    [doc EXCEPT !.likes = Append(@, uid), !.likesOp = "push",
                !.likesPushed = Append(@, uid)]

\* if (post.author.toString() !== req.user.id)
ShouldNotifyAlways(author, uid) == TRUE

ShouldNotify(author, uid) == author # uid

\* whether the like handler reaches its notification block at all: only in
\* the else-branch of if (hasLiked)
LikeBranchNotifiesAlways(hasLiked) == TRUE

LikeBranchNotifies(hasLiked) == ~hasLiked

\* the document handed to Notification.create; isRead is the schema default
MakeNotificationSwapped(type, author, uid, pid) ==
    [recipient |-> uid, sender |-> author, type |-> type,
     title |-> IF type = "like" THEN "New Like" ELSE "New Comment",
     message |-> uid,
     entityType |-> "post", entityId |-> pid, isRead |-> FALSE]

MakeNotification(type, author, uid, pid) ==
    [recipient |-> author, sender |-> uid, type |-> type,
     title |-> IF type = "like" THEN "New Like" ELSE "New Comment",
     message |-> uid,
     entityType |-> "post", entityId |-> pid, isRead |-> FALSE]

\* validation of the pushed comments run by save(): content is required
\* (an empty string does not satisfy required) and at most 1000 characters
ValidComment(c) ==
    c.content.given /\ c.content.len > 0 /\ c.content.len <= ContentMaxLen

ValidDoc(doc) == \A i \in 1..Len(doc.commentsPushed) : ValidComment(doc.commentsPushed[i])

\* whether the update sent by post.save() matches the stored document
SaveMatches(stored, doc) == doc.likesOp # "set" \/ stored.v = doc.v

\* the stored document after the update sent by post.save(): an assigned
\* path is set, pushed elements are appended to the stored array
SavedPostWholeArrays(stored, doc) ==
    [stored EXCEPT
        !.likes = IF doc.likesOp # "none" THEN doc.likes ELSE @,
        !.comments = IF doc.commentsPushed # <<>> THEN doc.comments ELSE @,
        !.v = IF doc.likesOp # "none" \/ doc.commentsPushed # <<>> THEN @ + 1 ELSE @]

SavedPost(stored, doc) ==
    [stored EXCEPT
        !.likes = CASE doc.likesOp = "set" -> doc.likes
                    [] doc.likesOp = "push" -> @ \o doc.likesPushed
                    [] OTHER -> @,
        !.comments = @ \o doc.commentsPushed,
        !.v = IF doc.likesOp # "none" \/ doc.commentsPushed # <<>> THEN @ + 1 ELSE @]

\* the local Mongoose document produced by Event.findById
LoadEvent(e) == [attendees |-> events[e].attendees, v |-> events[e].v]

NoEvent == [attendees |-> <<>>, v |-> 0]

\* status || 'interested'
StatusOrDefault(status) == IF status \in Falsy THEN "interested" ELSE status

\* event.attendees.filter(attendee => attendee.user.toString() !== userId)
RemoveRsvp(att, uid) == SelectSeq(att, LAMBDA a : a.user # uid)

\* the attendee list after the filter and the push; the path was assigned, so
\* save() sends the whole list
ReplaceRsvp(att, uid, status) ==
    Append(RemoveRsvp(att, uid), [user |-> uid, status |-> StatusOrDefault(status)])

\* validation run by event.save(): status is one of the enum's values
ValidAttendees(att) == \A i \in 1..Len(att) : att[i].status \in StatusEnum

\* whether the update sent by event.save() matches the stored document: the
\* assigned path is sent with the loaded version as a condition
EventSaveMatchesNoVersion(stored, edoc) == TRUE

EventSaveMatches(stored, edoc) == stored.v = edoc.v

SavedEvent(stored, edoc) == [attendees |-> edoc.attendees, v |-> stored.v + 1]

\* ---------------------------------------------------------- Bookmark store
\* type: enum ['post', 'event', 'user']
BookmarkTypes == {"post", "event", "user"}

\* the ObjectIds a bookmark may point at; a reference a document does not
\* set is indexed as null
TargetIds == {"x1", "x2"}
NoRef == "null"

\* the document an add-bookmark request hands to Bookmark.create: the user,
\* the type, and the target in the reference of that type
MakeBookmark(uid, type, id) ==
    [user |-> uid, type |-> type,
     post |-> IF type = "post" THEN id ELSE NoRef,
     event |-> IF type = "event" THEN id ELSE NoRef,
     userBookmarked |-> IF type = "user" THEN id ELSE NoRef]

\* bookmarkSchema.index({ user: 1, post: 1, event: 1, userBookmarked: 1 })
BookmarkKey(row) == <<row.user, row.post, row.event, row.userBookmarked>>

\* { unique: true }: whether the insert of row is a duplicate key error
DuplicateKeyNotUnique(store, row) == FALSE

DuplicateKey(store, row) ==
    \E i \in 1..Len(store) : BookmarkKey(store[i]) = BookmarkKey(row)

\* this.prisma.favorite.create({ data: { userId, postId } })
MakeFavorite(uid, pid) == [userId |-> uid, postId |-> pid]

\* whether the create of row violates the unique constraint of the Favorite
\* table on (userId, postId)
DuplicateFavorite(store, row) ==
    \E i \in 1..Len(store) :
        store[i].userId = row.userId /\ store[i].postId = row.postId

NoMarks == [calls |-> 0, op |-> "none", result |-> "none"]

\* ------------------------------------------------------ Notification store
\* the stored document: Mongoose gives it an _id, and timestamps: true a
\* createdAt
PersistedRead(n, id, t) ==
    [id |-> id, createdAt |-> t,
     recipient |-> n.recipient, sender |-> n.sender, type |-> n.type,
     title |-> n.title, message |-> n.message,
     entityType |-> n.entityType, entityId |-> n.entityId, isRead |-> TRUE]

Persisted(n, id, t) ==
    [id |-> id, createdAt |-> t,
     recipient |-> n.recipient, sender |-> n.sender, type |-> n.type,
     title |-> n.title, message |-> n.message,
     entityType |-> n.entityType, entityId |-> n.entityId, isRead |-> n.isRead]

\* Notification.create: the document is added to the collection, whoever is
\* connected
InsertUnlessOnline(store, n) ==
    IF \E s \in 1..Len(sockets) : n.recipient \in sockets[s].rooms
    THEN store ELSE Append(store, n)

Insert(store, n) == Append(store, n)

\* the positions matched by the filter {recipient: uid}
OfRecipient(store, uid) == {i \in 1..Len(store) : store[i].recipient = uid}

\* the positions matched by the filter {_id: id, recipient: uid}
OwnByIdAnyRecipient(store, id, uid) == {i \in 1..Len(store) : store[i].id = id}

OwnById(store, id, uid) ==
    {i \in 1..Len(store) : store[i].id = id /\ store[i].recipient = uid}

\* countDocuments({recipient: uid})
CountTotal(store, uid) == Cardinality(OfRecipient(store, uid))

\* countDocuments({recipient: uid, isRead: false})
CountUnreadAnyRecipient(store, uid) ==
    Cardinality({i \in 1..Len(store) : ~store[i].isRead})

CountUnread(store, uid) ==
    Cardinality({i \in OfRecipient(store, uid) : ~store[i].isRead})

\* findOneAndUpdate({_id, recipient}, {isRead: true}): the update sets
\* isRead and no other path
SetReadReset(store, i) == [store EXCEPT ![i].isRead = FALSE]

SetRead(store, i) == [store EXCEPT ![i].isRead = TRUE]

\* updateMany({recipient: uid, isRead: false}, {isRead: true})
SetAllReadAnyRecipient(store, uid) ==
    [i \in 1..Len(store) |-> [store[i] EXCEPT !.isRead = TRUE]]

SetAllRead(store, uid) ==
    [i \in 1..Len(store) |->
        IF store[i].recipient = uid /\ ~store[i].isRead
        THEN [store[i] EXCEPT !.isRead = TRUE] ELSE store[i]]

\* findOneAndDelete: the store without the document at position i
Remove(store, i) == [k \in 1..(Len(store) - 1) |-> IF k < i THEN store[k] ELSE store[k + 1]]

NoInbox == [calls |-> 0, op |-> "none", actor |-> "u1", id |-> 0, code |-> 0]

\* req.query of GET /api/notifications: a parameter is given or not
DefaultPage == 1
DefaultLimit == 20
NoParam == [given |-> FALSE, val |-> 0]
PageParams == {NoParam} \cup {[given |-> TRUE, val |-> v] : v \in 1..MaxPage}
LimitParams == {NoParam} \cup {[given |-> TRUE, val |-> v] : v \in 1..MaxLimit}

\* const { page = 1, limit = 20 } = req.query
PageOf(param) == IF param.given THEN param.val ELSE DefaultPage

LimitOf(param) == IF param.given THEN param.val ELSE DefaultLimit

\* .sort({ createdAt: -1 }): the documents of the recipient in an order of
\* descending createdAt; the store decides the order of documents with
\* equal createdAt
SortedByCreatedAt(store, uid) ==
    LET mine == SelectSeq(store, LAMBDA n : n.recipient = uid)
        k == Len(mine)
        orders == {f \in [1..k -> 1..k] :
                      /\ \A a \in 1..k, b \in 1..k : a # b => f[a] # f[b]
                      /\ \A a \in 1..k, b \in 1..k :
                            a < b => mine[f[a]].createdAt >= mine[f[b]].createdAt}
    IN {[a \in 1..k |-> mine[f[a]]] : f \in orders}

\* .limit(limit * 1).skip((page - 1) * limit): the query skips, then limits
WindowLimitFirst(sorted, page, limit) ==
    LET head == IF limit < Len(sorted) THEN SubSeq(sorted, 1, limit) ELSE sorted
        skip == (page - 1) * limit
    IN IF skip >= Len(head) THEN <<>> ELSE SubSeq(head, skip + 1, Len(head))

Window(sorted, page, limit) ==
    LET skip == (page - 1) * limit
        last == IF skip + limit < Len(sorted) THEN skip + limit ELSE Len(sorted)
    IN IF skip >= Len(sorted) THEN <<>> ELSE SubSeq(sorted, skip + 1, last)

\* Math.ceil(total / limit)
Ceil(total, limit) ==
    CHOOSE k \in 0..total : k * limit >= total /\ (k = 0 \/ (k - 1) * limit < total)

\* the ids of the recipient's stored Notifications
IdsOf(store, uid) == {store[i].id : i \in OfRecipient(store, uid)}

\* locals and response of the GET handler; found (the whole sorted result the
\* page was cut from) and steady (the recipient's Notifications were the
\* same documents at the count as at the find) are history
NoFetch ==
    [pc |-> "idle", actor |-> "u1", page |-> 1, limit |-> 1,
     found |-> <<>>, items |-> <<>>, steady |-> TRUE,
     total |-> 0, unreadCount |-> 0, count |-> 0, pages |-> 0, code |-> 0]

\* ------------------------------------------------------------ socket layer
\* the connections in the room keyed by uid
InRoom(uid) == {s \in 1..Len(sockets) : uid \in sockets[s].rooms}

\* io.to(uid).emit('notification', payload): the payload is written to every
\* connection in the room
EmitToAll(uid, payload) ==
    [s \in 1..Len(sockets) |->
        IF sockets[s].connected
        THEN [sockets[s] EXCEPT !.got = Append(@, payload)] ELSE sockets[s]]

Emit(uid, payload) ==
    [s \in 1..Len(sockets) |->
        IF uid \in sockets[s].rooms
        THEN [sockets[s] EXCEPT !.got = Append(@, payload)] ELSE sockets[s]]

\* ---------------------------------------------------------------- requests
\* a request before its first await.  Locals of the handler: doc, hasLiked.
\* Response: code, liked, count.  History of what the request did: created
\* (notifications it inserted), emits (push events it emitted), saved (its
\* save() was applied), createFailed / emitFailed (Notification.create
\* rejected / the io lookup or emit threw), quiet (no other request was in
\* flight when it arrived), solo (none was in flight at any time while it
\* ran), preLikes (the stored like array of its post when it arrived),
\* preAttendees / postAttendees (the stored attendee list of its event when it
\* arrived / right after its save()), postLikes (the stored like array of its
\* post right after its save()), and for a request the run watches
\* (watched) preUnread / postUnread (the unread count of the post's author
\* when it arrived / when it responded)
NewReq ==
    [kind |-> "none", actor |-> "u1", id |-> "missing", content |-> NoContent,
     status |-> NoStatus,
     pc |-> "find", doc |-> NoDoc, edoc |-> NoEvent, hasLiked |-> FALSE,
     code |-> 0, liked |-> FALSE, count |-> 0,
     created |-> <<>>, emits |-> <<>>, saved |-> FALSE,
     createFailed |-> FALSE, emitFailed |-> FALSE,
     quiet |-> TRUE, solo |-> TRUE, preLikes |-> <<>>,
     preAttendees |-> <<>>, postAttendees |-> <<>>, postLikes |-> <<>>,
     watched |-> FALSE, preUnread |-> 0, postUnread |-> 0]

ReqIds == 1..Len(reqs)

InFlight(r) == reqs[r].pc # "done"

Busy == \E q \in ReqIds : InFlight(q)

\* for a watched request: the unread count of the author of the post with
\* this id
AuthorUnread(store, watched, id) ==
    IF watched /\ id \in PostIds THEN CountUnread(store, PostAuthor[id]) ELSE 0

\* res.status(code).json(...): the handler returns and its locals die
Respond(r, code) ==
    [reqs[r] EXCEPT !.pc = "done", !.code = code, !.doc = NoDoc, !.edoc = NoEvent,
                    !.postUnread = AuthorUnread(notifications, reqs[r].watched, reqs[r].id)]

Init ==
    /\ posts = [p \in PostIds |->
                  [author |-> PostAuthor[p], likes |-> <<>>, comments |-> <<>>, v |-> 0]]
    /\ notifications = <<>>
    /\ reqs = <<>>
    /\ events = [e \in EventIds |-> [attendees |-> <<>>, v |-> 0]]
    /\ rsvpRows = <<>>
    /\ rsvpCalls = <<>>
    /\ schemaUnique = FALSE
    /\ nextId = 1
    /\ now = 0
    /\ inbox = NoInbox
    /\ fetch = NoFetch
    /\ sockets = <<>>
    /\ bookmarks = <<>>
    /\ favorites = <<>>
    /\ marks = NoMarks

\* a request arrives (protect has set req.user)
ReceiveWith(kind, uid, id, content, status, limit, watch) ==
    /\ Len(reqs) < limit
    /\ reqs' = Append([q \in ReqIds |->
                         IF InFlight(q) THEN [reqs[q] EXCEPT !.solo = FALSE] ELSE reqs[q]],
                      [NewReq EXCEPT !.kind = kind, !.actor = uid, !.id = id,
                                     !.content = content, !.status = status,
                                     !.quiet = ~Busy, !.solo = ~Busy,
                                     !.preLikes = IF id \in PostIds THEN posts[id].likes
                                                  ELSE <<>>,
                                     !.preAttendees =
                                         IF id \in EventIds THEN events[id].attendees
                                         ELSE <<>>,
                                     !.watched = watch,
                                     !.preUnread = AuthorUnread(notifications, watch, id),
                                     !.postUnread = AuthorUnread(notifications, watch, id)])
    /\ UNCHANGED <<posts, notifications, events, prismaVars, bookmarkVars, restVars>>

Receive(kind, uid, id, content, status, limit) ==
    ReceiveWith(kind, uid, id, content, status, limit, FALSE)

ReceiveLike(limit) ==
    \E uid \in Users, id \in ParamIds : Receive("like", uid, id, NoContent, NoStatus, limit)

\* the same request, in a run that watches the author's unread count
ReceiveLikeWatched(limit) ==
    \E uid \in Users, id \in ParamIds :
        ReceiveWith("like", uid, id, NoContent, NoStatus, limit, TRUE)

ReceiveComment(limit) ==
    \E uid \in Users, id \in ParamIds, c \in Contents :
        Receive("comment", uid, id, c, NoStatus, limit)

\* POST /:id/like, from Post.findById to the next await
LikeFind(r, dbOk) ==
    /\ reqs[r].kind = "like" /\ reqs[r].pc = "find"
    /\ LET q == reqs[r] IN
        IF ~dbOk THEN reqs' = [reqs EXCEPT ![r] = Respond(r, 400)]
        ELSE IF q.id \notin PostIds THEN reqs' = [reqs EXCEPT ![r] = Respond(r, 404)]
        ELSE
          LET doc == LoadPost(q.id)
              has == HasLiked(doc, q.actor)
              doc2 == IF has THEN Unlike(doc, q.actor) ELSE Like(doc, q.actor)
              notify == LikeBranchNotifies(has) /\ ShouldNotify(doc.author, q.actor)
          IN reqs' = [reqs EXCEPT ![r] =
                        [q EXCEPT !.doc = doc2, !.hasLiked = has,
                                  !.pc = IF notify THEN "notify" ELSE "save"]]
    /\ UNCHANGED <<posts, notifications, events, prismaVars, bookmarkVars, restVars>>

\* await Notification.create(...), then the io lookup and emit; a throw of
\* either lands in the handler's catch.  tick: the milliseconds gone by since
\* the last Notification was created (0: the two get the same createdAt)
Notify(r, type, next, createOk, emitOk, tick) ==
    /\ reqs[r].pc = "notify"
    /\ LET q == reqs[r]
           n == Persisted(MakeNotification(type, q.doc.author, q.actor, q.id),
                          nextId, now + tick)
           payload == [type |-> type, message |-> q.actor]
           e == [room |-> q.doc.author, type |-> type, message |-> q.actor,
                 to |-> InRoom(q.doc.author)]
       IN
        IF ~createOk
        THEN /\ reqs' = [reqs EXCEPT ![r] = [Respond(r, 400) EXCEPT !.createFailed = TRUE]]
             /\ UNCHANGED <<notifications, nextId, now, sockets>>
        ELSE /\ notifications' = Insert(notifications, n)
             /\ nextId' = nextId + 1
             /\ now' = now + tick
             /\ sockets' = IF emitOk THEN Emit(q.doc.author, payload) ELSE sockets
             /\ reqs' = [reqs EXCEPT ![r] =
                  IF ~emitOk
                  THEN [Respond(r, 400) EXCEPT
                          !.created = Append(@, n), !.emitFailed = TRUE,
                          !.postUnread = AuthorUnread(Append(notifications, n), q.watched, q.id)]
                  ELSE IF next = "done"
                  THEN [Respond(r, 200) EXCEPT
                          !.created = Append(@, n), !.emits = Append(@, e),
                          !.postUnread = AuthorUnread(Append(notifications, n), q.watched, q.id)]
                  ELSE [q EXCEPT !.created = Append(@, n), !.emits = Append(@, e),
                                 !.pc = next]]
    /\ UNCHANGED <<posts, events, prismaVars, bookmarkVars, inboxVars>>

LikeNotify(r, createOk, emitOk, tick) ==
    reqs[r].kind = "like" /\ Notify(r, "like", "save", createOk, emitOk, tick)

\* await post.save()
Save(r, dbOk) ==
    /\ reqs[r].pc = "save"
    /\ LET q == reqs[r] IN
        IF dbOk /\ ValidDoc(q.doc) /\ SaveMatches(posts[q.id], q.doc)
        THEN /\ posts' = [posts EXCEPT ![q.id] = SavedPost(@, q.doc)]
             /\ reqs' = [reqs EXCEPT ![r] =
                           [q EXCEPT !.pc = "populate", !.saved = TRUE,
                                     !.postLikes = SavedPost(posts[q.id], q.doc).likes]]
        ELSE /\ reqs' = [reqs EXCEPT ![r] = Respond(r, 400)]
             /\ UNCHANGED posts
    /\ UNCHANGED <<notifications, events, prismaVars, bookmarkVars, restVars>>

LikeSave(r, dbOk) == reqs[r].kind = "like" /\ Save(r, dbOk)

\* await post.populate('likes', ...), then res.json from the local document
LikePopulate(r, dbOk) ==
    /\ reqs[r].kind = "like" /\ reqs[r].pc = "populate"
    /\ LET q == reqs[r] IN
        IF ~dbOk THEN reqs' = [reqs EXCEPT ![r] = Respond(r, 400)]
        ELSE reqs' = [reqs EXCEPT ![r] =
                        [Respond(r, 200) EXCEPT !.liked = ~q.hasLiked,
                                                !.count = Len(q.doc.likes)]]
    /\ UNCHANGED <<posts, notifications, events, prismaVars, bookmarkVars, restVars>>

\* POST /:id/comments, from Post.findById to the next await
CommentFind(r, dbOk) ==
    /\ reqs[r].kind = "comment" /\ reqs[r].pc = "find"
    /\ LET q == reqs[r] IN
        IF ~dbOk THEN reqs' = [reqs EXCEPT ![r] = Respond(r, 400)]
        ELSE IF q.id \notin PostIds THEN reqs' = [reqs EXCEPT ![r] = Respond(r, 404)]
        ELSE
          LET doc == LoadPost(q.id)
              c == [user |-> q.actor, content |-> q.content]
          IN reqs' = [reqs EXCEPT ![r] =
                        [q EXCEPT !.doc = [doc EXCEPT !.comments = Append(@, c),
                                                      !.commentsPushed = Append(@, c)],
                                  !.pc = "save"]]
    /\ UNCHANGED <<posts, notifications, events, prismaVars, bookmarkVars, restVars>>

CommentSave(r, dbOk) == reqs[r].kind = "comment" /\ Save(r, dbOk)

\* await post.populate('comments.user', ...), then the author test
CommentPopulate(r, dbOk) ==
    /\ reqs[r].kind = "comment" /\ reqs[r].pc = "populate"
    /\ LET q == reqs[r] IN
        IF ~dbOk THEN reqs' = [reqs EXCEPT ![r] = Respond(r, 400)]
        ELSE IF ShouldNotify(q.doc.author, q.actor)
        THEN reqs' = [reqs EXCEPT ![r] = [q EXCEPT !.pc = "notify"]]
        ELSE reqs' = [reqs EXCEPT ![r] = Respond(r, 200)]
    /\ UNCHANGED <<posts, notifications, events, prismaVars, bookmarkVars, restVars>>

CommentNotify(r, createOk, emitOk, tick) ==
    reqs[r].kind = "comment" /\ Notify(r, "comment", "done", createOk, emitOk, tick)

\* ------------------------------------------------------ rsvpEvent (Express)
ReceiveRsvp(limit) ==
    \E uid \in Users, id \in ParamEventIds, st \in BodyStatuses :
        Receive("rsvp", uid, id, NoContent, st, limit)

\* the same, for a run in which requests are handled one after the other
ReceiveRsvpIdle(limit) == ~Busy /\ ReceiveRsvp(limit)

\* POST /:id/rsvp, from Event.findById to the next await
RsvpFind(r, dbOk) ==
    /\ reqs[r].kind = "rsvp" /\ reqs[r].pc = "find"
    /\ LET q == reqs[r] IN
        IF ~dbOk THEN reqs' = [reqs EXCEPT ![r] = Respond(r, 400)]
        ELSE IF q.id \notin EventIds THEN reqs' = [reqs EXCEPT ![r] = Respond(r, 404)]
        ELSE
          LET ev == LoadEvent(q.id) IN
          reqs' = [reqs EXCEPT ![r] =
                     [q EXCEPT !.edoc = [ev EXCEPT !.attendees =
                                            ReplaceRsvp(@, q.actor, q.status)],
                               !.pc = "save"]]
    /\ UNCHANGED <<posts, notifications, events, prismaVars, bookmarkVars, restVars>>

\* await event.save()
RsvpSave(r, dbOk) ==
    /\ reqs[r].kind = "rsvp" /\ reqs[r].pc = "save"
    /\ LET q == reqs[r] IN
        IF dbOk /\ ValidAttendees(q.edoc.attendees) /\ EventSaveMatches(events[q.id], q.edoc)
        THEN /\ events' = [events EXCEPT ![q.id] = SavedEvent(@, q.edoc)]
             /\ reqs' = [reqs EXCEPT ![r] =
                           [q EXCEPT !.pc = "populate", !.saved = TRUE,
                                     !.postAttendees = q.edoc.attendees]]
        ELSE /\ reqs' = [reqs EXCEPT ![r] = Respond(r, 400)]
             /\ UNCHANGED events
    /\ UNCHANGED <<posts, notifications, prismaVars, bookmarkVars, restVars>>

\* await event.populate('attendees.user', ...), then res.json
RsvpPopulate(r, dbOk) ==
    /\ reqs[r].kind = "rsvp" /\ reqs[r].pc = "populate"
    /\ reqs' = [reqs EXCEPT ![r] = Respond(r, IF dbOk THEN 200 ELSE 400)]
    /\ UNCHANGED <<posts, notifications, events, prismaVars, bookmarkVars, restVars>>

\* ------------------------------------------------- EventsService.rsvp (Nest)
\* prisma.eventRSVP.upsert({where: {id: `${userId}-${eventId}`},
\*                          create: {userId, eventId, status}, update: {status}})
\* A row's id is a key of the form [user, event] when it was written as
\* `${userId}-${eventId}`, and a number when the store generated it.
CompositeId(uid, eid) == [user |-> uid, event |-> eid]

\* create: {userId, eventId, status} gives the row no id, so the store
\* generates one
CreatedRowId == [generated |-> Len(rsvpRows) + 1]

UpsertWhere(row, uid, eid) == row.id = CompositeId(uid, eid)

PrismaRsvp(uid, eid, status) ==
    /\ Len(rsvpCalls) < MaxRsvpReq
    /\ LET hit == {i \in 1..Len(rsvpRows) : UpsertWhere(rsvpRows[i], uid, eid)}
           clash == \E i \in 1..Len(rsvpRows) :
                       rsvpRows[i].userId = uid /\ rsvpRows[i].eventId = eid
       IN
        IF hit # {}
        THEN /\ rsvpRows' = [i \in 1..Len(rsvpRows) |->
                               IF i \in hit THEN [rsvpRows[i] EXCEPT !.status = status]
                               ELSE rsvpRows[i]]
             /\ rsvpCalls' = Append(rsvpCalls, [user |-> uid, event |-> eid,
                                                status |-> status, ok |-> TRUE])
        ELSE IF schemaUnique /\ clash
        THEN /\ UNCHANGED rsvpRows
             /\ rsvpCalls' = Append(rsvpCalls, [user |-> uid, event |-> eid,
                                                status |-> status, ok |-> FALSE])
        ELSE /\ rsvpRows' = Append(rsvpRows, [id |-> CreatedRowId, userId |-> uid,
                                              eventId |-> eid, status |-> status])
             /\ rsvpCalls' = Append(rsvpCalls, [user |-> uid, event |-> eid,
                                                status |-> status, ok |-> TRUE])
    /\ UNCHANGED <<posts, notifications, reqs, events, schemaUnique, bookmarkVars,
                   restVars>>

ServiceRsvp == \E uid \in Users, eid \in EventIds, st \in StatusEnum : PrismaRsvp(uid, eid, st)

\* ------------------------------------------------- notifications routes
\* req.params.id: the _id of a stored or deleted Notification, or one that
\* no Notification has had
NotificationIds == 1..nextId

\* the response of a mark-read, read-all or delete request
InboxDone(op, uid, id, code) ==
    [calls |-> inbox.calls + 1, op |-> op, actor |-> uid, id |-> id, code |-> code]

\* PUT /:id/read
MarkRead(uid, id, dbOk, limit) ==
    /\ inbox.calls < limit
    /\ LET hit == OwnById(notifications, id, uid) IN
        IF ~dbOk
        THEN /\ inbox' = InboxDone("read", uid, id, 400)
             /\ UNCHANGED notifications
        ELSE IF hit = {}
        THEN /\ inbox' = InboxDone("read", uid, id, 404)
             /\ UNCHANGED notifications
        ELSE /\ notifications' = SetRead(notifications, CHOOSE i \in hit : TRUE)
             /\ inbox' = InboxDone("read", uid, id, 200)
    /\ UNCHANGED <<posts, reqs, events, prismaVars, bookmarkVars, nextId, now, fetch, sockets>>

\* PUT /read-all
MarkAllRead(uid, dbOk, limit) ==
    /\ inbox.calls < limit
    /\ IF ~dbOk
       THEN /\ inbox' = InboxDone("read-all", uid, 0, 400)
            /\ UNCHANGED notifications
       ELSE /\ notifications' = SetAllRead(notifications, uid)
            /\ inbox' = InboxDone("read-all", uid, 0, 200)
    /\ UNCHANGED <<posts, reqs, events, prismaVars, bookmarkVars, nextId, now, fetch, sockets>>

\* DELETE /:id
DeleteNotification(uid, id, dbOk, limit) ==
    /\ inbox.calls < limit
    /\ LET hit == OwnById(notifications, id, uid) IN
        IF ~dbOk
        THEN /\ inbox' = InboxDone("delete", uid, id, 400)
             /\ UNCHANGED notifications
        ELSE IF hit = {}
        THEN /\ inbox' = InboxDone("delete", uid, id, 404)
             /\ UNCHANGED notifications
        ELSE /\ notifications' = Remove(notifications, CHOOSE i \in hit : TRUE)
             /\ inbox' = InboxDone("delete", uid, id, 200)
    /\ UNCHANGED <<posts, reqs, events, prismaVars, bookmarkVars, nextId, now, fetch, sockets>>

\* GET /, from the request to the end of the find query.  The handler only
\* reads, so the requests of this route do not affect one another, and a run
\* follows one of them
GetFind(uid, page, limit, dbOk) ==
    /\ fetch.pc = "idle"
    /\ IF ~dbOk
       THEN fetch' = [NoFetch EXCEPT !.pc = "done", !.actor = uid,
                                     !.page = PageOf(page), !.limit = LimitOf(limit),
                                     !.code = 400]
       ELSE \E sorted \in SortedByCreatedAt(notifications, uid) :
              fetch' = [NoFetch EXCEPT
                          !.pc = "total", !.actor = uid,
                          !.page = PageOf(page), !.limit = LimitOf(limit),
                          !.found = sorted,
                          !.items = Window(sorted, PageOf(page), LimitOf(limit))]
    /\ UNCHANGED <<posts, notifications, reqs, events, prismaVars, bookmarkVars, nextId, now, inbox,
                   sockets>>

\* const total = await Notification.countDocuments({ recipient })
GetTotal(dbOk) ==
    /\ fetch.pc = "total"
    /\ IF ~dbOk
       THEN fetch' = [fetch EXCEPT !.pc = "done", !.code = 400, !.items = <<>>]
       ELSE fetch' = [fetch EXCEPT
                        !.pc = "unread",
                        !.total = CountTotal(notifications, fetch.actor),
                        !.steady = IdsOf(notifications, fetch.actor)
                                     = {fetch.found[k].id : k \in 1..Len(fetch.found)}]
    /\ UNCHANGED <<posts, notifications, reqs, events, prismaVars, bookmarkVars, nextId, now, inbox,
                   sockets>>

\* const unreadCount = await Notification.countDocuments({ recipient, isRead:
\* false }), then res.json
GetUnread(dbOk) ==
    /\ fetch.pc = "unread"
    /\ IF ~dbOk
       THEN fetch' = [fetch EXCEPT !.pc = "done", !.code = 400, !.items = <<>>]
       ELSE fetch' = [fetch EXCEPT
                        !.pc = "done", !.code = 200,
                        !.unreadCount = CountUnread(notifications, fetch.actor),
                        !.count = Len(fetch.items),
                        !.pages = Ceil(fetch.total, fetch.limit)]
    /\ UNCHANGED <<posts, notifications, reqs, events, prismaVars, bookmarkVars, nextId, now, inbox,
                   sockets>>

\* ------------------------------------------------- bookmarks and favorites
\* the outcome of a bookmark or favorite attempt
Marked(op, result) == [calls |-> marks.calls + 1, op |-> op, result |-> result]

\* an add-bookmark request: Bookmark.create, which the unique index rejects
\* with a duplicate key error that the request answers as a Conflict
AddBookmark(uid, type, id) ==
    /\ marks.calls < MaxBookmarkCalls
    /\ LET row == MakeBookmark(uid, type, id) IN
        IF DuplicateKey(bookmarks, row)
        THEN /\ marks' = Marked("bookmark", "conflict")
             /\ UNCHANGED bookmarks
        ELSE /\ bookmarks' = Append(bookmarks, row)
             /\ marks' = Marked("bookmark", "created")
    /\ UNCHANGED <<posts, notifications, reqs, events, prismaVars, restVars, favorites>>

\* PostsService.favorite
Favorite(uid, pid) ==
    /\ marks.calls < MaxBookmarkCalls
    /\ LET row == MakeFavorite(uid, pid) IN
        IF DuplicateFavorite(favorites, row)
        THEN /\ marks' = Marked("favorite", "conflict")
             /\ UNCHANGED favorites
        ELSE /\ favorites' = Append(favorites, row)
             /\ marks' = Marked("favorite", "created")
    /\ UNCHANGED <<posts, notifications, reqs, events, prismaVars, restVars, bookmarks>>

\* ------------------------------------------------------ socket.io server
\* io.on('connection'): a connection is accepted; it is in no user's room.
\* got: the notification events written to it
NewSocket == [connected |-> TRUE, rooms |-> {}, got |-> <<>>]

Connect(limit) ==
    /\ Len(sockets) < limit
    /\ sockets' = Append(sockets, NewSocket)
    /\ UNCHANGED <<posts, notifications, reqs, events, prismaVars, bookmarkVars, nextId, now,
                   inboxVars>>

\* socket.on('join-user', userId => socket.join(userId)): the id is whatever
\* the client sends
JoinUser(s, uid) ==
    /\ sockets[s].connected
    /\ sockets' = [sockets EXCEPT ![s].rooms = @ \cup {uid}]
    /\ UNCHANGED <<posts, notifications, reqs, events, prismaVars, bookmarkVars, nextId, now,
                   inboxVars>>

\* the connection closes: socket.io takes it out of every room; the
\* disconnect handler logs
ClosedKeepsRooms(sock) == [sock EXCEPT !.connected = FALSE]

Closed(sock) == [sock EXCEPT !.connected = FALSE, !.rooms = {}]

Disconnect(s) ==
    /\ sockets[s].connected
    /\ sockets' = [sockets EXCEPT ![s] = Closed(@)]
    /\ UNCHANGED <<posts, notifications, reqs, events, prismaVars, bookmarkVars, nextId, now,
                   inboxVars>>

\* ---------------------------------------------------------- specifications
\* like and comment requests; every await may reject and the emit may throw
Next ==
    \/ ReceiveLike(MaxFaultReq)
    \/ ReceiveComment(MaxFaultReq)
    \/ \E r \in ReqIds, ok \in BOOLEAN : LikeFind(r, ok)
    \/ \E r \in ReqIds, c \in BOOLEAN, e \in BOOLEAN : LikeNotify(r, c, e, 1)
    \/ \E r \in ReqIds, ok \in BOOLEAN : LikeSave(r, ok)
    \/ \E r \in ReqIds, ok \in BOOLEAN : LikePopulate(r, ok)
    \/ \E r \in ReqIds, ok \in BOOLEAN : CommentFind(r, ok)
    \/ \E r \in ReqIds, ok \in BOOLEAN : CommentSave(r, ok)
    \/ \E r \in ReqIds, ok \in BOOLEAN : CommentPopulate(r, ok)
    \/ \E r \in ReqIds, c \in BOOLEAN, e \in BOOLEAN : CommentNotify(r, c, e, 1)

Spec == Init /\ [][Next]_vars

\* like requests alone, with stores and socket layer that never fail
NextLike ==
    \/ ReceiveLike(MaxReq)
    \/ \E r \in ReqIds : LikeFind(r, TRUE)
    \/ \E r \in ReqIds : LikeNotify(r, TRUE, TRUE, 1)
    \/ \E r \in ReqIds : LikeSave(r, TRUE)
    \/ \E r \in ReqIds : LikePopulate(r, TRUE)

SpecLike == Init /\ [][NextLike]_vars

\* overlapping RSVP requests of the Express handler, with a store that never
\* fails
NextRsvp ==
    \/ ReceiveRsvp(MaxRsvpOverlap)
    \/ \E r \in ReqIds : RsvpFind(r, TRUE)
    \/ \E r \in ReqIds : RsvpSave(r, TRUE)
    \/ \E r \in ReqIds : RsvpPopulate(r, TRUE)

SpecRsvp == Init /\ [][NextRsvp]_vars

\* RSVP requests handled one after the other, with stores that never fail.  A
\* run is a run of one of the two backends: of the Express handler, or of the
\* NestJS service, whose EventRSVP table has a unique index on
\* (userId, eventId) or has none
InitRsvpSeq ==
    /\ posts = [p \in PostIds |->
                  [author |-> PostAuthor[p], likes |-> <<>>, comments |-> <<>>, v |-> 0]]
    /\ notifications = <<>>
    /\ reqs = <<>>
    /\ events = [e \in EventIds |-> [attendees |-> <<>>, v |-> 0]]
    /\ rsvpRows = <<>>
    /\ rsvpCalls = <<>>
    /\ schemaUnique \in BOOLEAN
    /\ nextId = 1
    /\ now = 0
    /\ inbox = NoInbox
    /\ fetch = NoFetch
    /\ sockets = <<>>
    /\ bookmarks = <<>>
    /\ favorites = <<>>
    /\ marks = NoMarks

NextRsvpSeq ==
    \/ rsvpCalls = <<>> /\ ReceiveRsvpIdle(MaxRsvpReq)
    \/ \E r \in ReqIds : RsvpFind(r, TRUE)
    \/ \E r \in ReqIds : RsvpSave(r, TRUE)
    \/ \E r \in ReqIds : RsvpPopulate(r, TRUE)
    \/ reqs = <<>> /\ ServiceRsvp

SpecRsvpSeq == InitRsvpSeq /\ [][NextRsvpSeq]_vars

\* a Notification stored before the run: u1 liked a post of u2 that has
\* since been deleted (DELETE /api/posts/:id leaves the notifications about
\* the post in place)
Earlier == Persisted(MakeNotification("like", "u2", "u1", "p0"), 1, 0)

\* another one: u2 commented on a post of u1 that has since been deleted
EarlierComment == Persisted(MakeNotification("comment", "u1", "u2", "p0"), 2, 0)

\* like and comment requests together with mark-read, read-all and delete
\* requests, with stores and socket layer that never fail
InitInbox ==
    /\ posts = [p \in PostIds |->
                  [author |-> PostAuthor[p], likes |-> <<>>, comments |-> <<>>, v |-> 0]]
    /\ notifications \in {<<>>, <<Earlier, EarlierComment>>}
    /\ nextId = Len(notifications) + 1
    /\ now = 0
    /\ reqs = <<>>
    /\ events = [e \in EventIds |-> [attendees |-> <<>>, v |-> 0]]
    /\ rsvpRows = <<>>
    /\ rsvpCalls = <<>>
    /\ schemaUnique = FALSE
    /\ inbox = NoInbox
    /\ fetch = NoFetch
    /\ sockets = <<>>
    /\ bookmarks = <<>>
    /\ favorites = <<>>
    /\ marks = NoMarks

NextInbox ==
    \/ ReceiveLike(MaxInboxReq)
    \/ ReceiveComment(MaxInboxReq)
    \/ \E r \in ReqIds : LikeFind(r, TRUE)
    \/ \E r \in ReqIds : LikeNotify(r, TRUE, TRUE, 1)
    \/ \E r \in ReqIds : LikeSave(r, TRUE)
    \/ \E r \in ReqIds : LikePopulate(r, TRUE)
    \/ \E r \in ReqIds : CommentFind(r, TRUE)
    \/ \E r \in ReqIds : CommentSave(r, TRUE)
    \/ \E r \in ReqIds : CommentPopulate(r, TRUE)
    \/ \E r \in ReqIds : CommentNotify(r, TRUE, TRUE, 1)
    \/ \E uid \in Users, id \in NotificationIds : MarkRead(uid, id, TRUE, MaxInboxOps)
    \/ \E uid \in Users : MarkAllRead(uid, TRUE, MaxInboxOps)
    \/ \E uid \in Users, id \in NotificationIds : DeleteNotification(uid, id, TRUE, MaxInboxOps)

SpecInbox == InitInbox /\ [][NextInbox]_vars

\* like requests and an inbox fetch, with stores and socket layer that never
\* fail; two Notifications may be created within the same millisecond
NextFetch ==
    \/ ReceiveLike(MaxInboxReq)
    \/ \E r \in ReqIds : LikeFind(r, TRUE)
    \/ \E r \in ReqIds, tick \in {0, 1} : LikeNotify(r, TRUE, TRUE, tick)
    \/ \E r \in ReqIds : LikeSave(r, TRUE)
    \/ \E r \in ReqIds : LikePopulate(r, TRUE)
    \/ \E uid \in Users, page \in PageParams, limit \in LimitParams :
          GetFind(uid, page, limit, TRUE)
    \/ GetTotal(TRUE)
    \/ GetUnread(TRUE)

SpecFetch == InitInbox /\ [][NextFetch]_vars

\* like requests while connections come, join rooms and go, with stores and
\* socket layer that never fail
NextPush ==
    \/ ReceiveLike(MaxInboxReq)
    \/ \E r \in ReqIds : LikeFind(r, TRUE)
    \/ \E r \in ReqIds : LikeNotify(r, TRUE, TRUE, 1)
    \/ \E r \in ReqIds : LikeSave(r, TRUE)
    \/ \E r \in ReqIds : LikePopulate(r, TRUE)
    \/ Connect(MaxSockets)
    \/ \E s \in 1..Len(sockets), uid \in Users : JoinUser(s, uid)
    \/ \E s \in 1..Len(sockets) : Disconnect(s)

SpecPush == InitInbox /\ [][NextPush]_vars

\* a like request whose author's unread count the run watches, read-all
\* requests, and connections that come, join rooms and go, with stores and
\* socket layer that never fail
NextWatch ==
    \/ ReceiveLikeWatched(MaxInboxReq)
    \/ \E r \in ReqIds : LikeFind(r, TRUE)
    \/ \E r \in ReqIds : LikeNotify(r, TRUE, TRUE, 1)
    \/ \E r \in ReqIds : LikeSave(r, TRUE)
    \/ \E r \in ReqIds : LikePopulate(r, TRUE)
    \/ \E uid \in Users : MarkAllRead(uid, TRUE, MaxWatchOps)
    \/ Connect(MaxWatchSockets)
    \/ \E s \in 1..Len(sockets), uid \in Users : JoinUser(s, uid)
    \/ \E s \in 1..Len(sockets) : Disconnect(s)

SpecWatch == InitInbox /\ [][NextWatch]_vars

\* like and comment requests, delete requests and an inbox fetch while
\* connections come, join rooms and go, with stores and socket layer that
\* never fail
NextDurable ==
    \/ ReceiveLike(MaxInboxReq)
    \/ ReceiveComment(MaxInboxReq)
    \/ \E r \in ReqIds : LikeFind(r, TRUE)
    \/ \E r \in ReqIds : LikeNotify(r, TRUE, TRUE, 1)
    \/ \E r \in ReqIds : LikeSave(r, TRUE)
    \/ \E r \in ReqIds : LikePopulate(r, TRUE)
    \/ \E r \in ReqIds : CommentFind(r, TRUE)
    \/ \E r \in ReqIds : CommentSave(r, TRUE)
    \/ \E r \in ReqIds : CommentPopulate(r, TRUE)
    \/ \E r \in ReqIds : CommentNotify(r, TRUE, TRUE, 1)
    \/ \E uid \in Users, id \in NotificationIds :
          DeleteNotification(uid, id, TRUE, MaxWatchOps)
    \/ \E uid \in Users, page \in PageParams, limit \in LimitParams :
          GetFind(uid, page, limit, TRUE)
    \/ GetTotal(TRUE)
    \/ GetUnread(TRUE)
    \/ Connect(MaxWatchSockets)
    \/ \E s \in 1..Len(sockets), uid \in Users : JoinUser(s, uid)
    \/ \E s \in 1..Len(sockets) : Disconnect(s)

SpecDurable == InitInbox /\ [][NextDurable]_vars

\* add-bookmark requests and PostsService.favorite calls in any order
NextBookmark ==
    \/ \E uid \in Users, type \in BookmarkTypes, id \in TargetIds :
          AddBookmark(uid, type, id)
    \/ \E uid \in Users, pid \in TargetIds : Favorite(uid, pid)

SpecBookmark == Init /\ [][NextBookmark]_vars

\* a fetch of the first page of an inbox while like requests create
\* Notifications and read-all and delete requests change them, with stores
\* and socket layer that never fail
NextRace ==
    \/ ReceiveLike(MaxInboxReq)
    \/ \E r \in ReqIds : LikeFind(r, TRUE)
    \/ \E r \in ReqIds : LikeNotify(r, TRUE, TRUE, 1)
    \/ \E r \in ReqIds : LikeSave(r, TRUE)
    \/ \E r \in ReqIds : LikePopulate(r, TRUE)
    \/ \E uid \in Users : MarkAllRead(uid, TRUE, MaxWatchOps)
    \/ \E uid \in Users, id \in NotificationIds :
          DeleteNotification(uid, id, TRUE, MaxWatchOps)
    \/ \E uid \in Users, limit \in LimitParams : GetFind(uid, NoParam, limit, TRUE)
    \/ GetTotal(TRUE)
    \/ GetUnread(TRUE)

SpecRace == InitInbox /\ [][NextRace]_vars

\* ------------------------------------------------------------------ claims
Done(r) == reqs[r].pc = "done"

OnPost(r) == reqs[r].id \in PostIds

\* b arrived while a was in flight, nothing else was in flight with them, and
\* nothing has arrived since
OverlappingPair(a, b) ==
    /\ b = a + 1 /\ b = Len(reqs)
    /\ reqs[a].quiet /\ ~reqs[a].solo

\* b arrived after a had responded, nothing was in flight with either, and
\* nothing has arrived since
SuccessivePair(a, b) ==
    /\ b = a + 1 /\ b = Len(reqs)
    /\ reqs[a].quiet /\ reqs[a].solo /\ reqs[b].solo

\* the actor's membership flipped with respect to the like array stored when
\* the request arrived
Flipped(r) ==
    Includes(posts[reqs[r].id].likes, reqs[r].actor)
        = ~Includes(reqs[r].preLikes, reqs[r].actor)

\* C1: when the like toggles of two distinct actors on one post overlap, the
\* like array stored once both have responded reflects both membership
\* changes: each actor's membership is the opposite of what it was.
C1_NoLostUpdate ==
    \A a \in ReqIds, b \in ReqIds :
        ( /\ OverlappingPair(a, b)
          /\ Done(a) /\ Done(b)
          /\ reqs[a].kind = "like" /\ reqs[b].kind = "like"
          /\ OnPost(a) /\ reqs[a].id = reqs[b].id
          /\ reqs[a].actor # reqs[b].actor )
        => Flipped(a) /\ Flipped(b)

\* C2: in every reachable state a post's like array holds each user at most
\* once, whatever the interleaving of like toggles.
C2_LikesNoDuplicates ==
    \A p \in PostIds, u \in Users : Count(posts[p].likes, u) <= 1

\* C3: two like toggles of one actor on one post, run one after the other
\* with nothing in between, restore the actor's membership and the like count,
\* and respond liked = ~initial and then liked = initial.
C3_DoubleToggleRestores ==
    \A a \in ReqIds, b \in ReqIds :
        ( /\ SuccessivePair(a, b)
          /\ Done(a) /\ Done(b)
          /\ reqs[a].code = 200 /\ reqs[b].code = 200
          /\ reqs[a].kind = "like" /\ reqs[b].kind = "like"
          /\ OnPost(a) /\ reqs[a].id = reqs[b].id
          /\ reqs[a].actor = reqs[b].actor )
        => LET initial == Includes(reqs[a].preLikes, reqs[a].actor)
               likes == posts[reqs[a].id].likes
           IN /\ Includes(likes, reqs[a].actor) = initial
              /\ Len(likes) = Len(reqs[a].preLikes)
              /\ reqs[a].liked = ~initial
              /\ reqs[b].liked = initial

\* the entries of user u in an attendee list, and the entries of the others
Mine(att, u) == SelectSeq(att, LAMBDA a : a.user = u)

Others(att, u) == SelectSeq(att, LAMBDA a : a.user # u)

Last(S) == CHOOSE x \in S : \A y \in S : y <= x

\* the status a request asks for: interested when it gives none
Asked(status) == IF status \in Falsy THEN "interested" ELSE status

\* C4 for the Express handler: once the requests handled so far have
\* responded, every actor who sent an RSVP with a status of the enum (or with
\* none) has exactly one entry, with the status of the last such request; a
\* request leaves the entries of the other actors as they were.
C4_Express ==
    /\ ~Busy =>
         \A e \in EventIds, u \in Users :
            LET R == {r \in ReqIds : /\ reqs[r].kind = "rsvp" /\ reqs[r].id = e
                                     /\ reqs[r].actor = u
                                     /\ reqs[r].status \in Falsy \cup StatusEnum}
            IN R # {} =>
                 Mine(events[e].attendees, u)
                    = <<[user |-> u, status |-> Asked(reqs[Last(R)].status)]>>
    /\ \A r \in ReqIds :
         (reqs[r].kind = "rsvp" /\ reqs[r].saved)
         => Others(reqs[r].postAttendees, reqs[r].actor)
               = Others(reqs[r].preAttendees, reqs[r].actor)

\* C4 for the NestJS service: every actor who called rsvp has exactly one row
\* for the event, with the status of the last call.
C4_Service ==
    \A e \in EventIds, u \in Users :
        LET C == {i \in 1..Len(rsvpCalls) :
                     rsvpCalls[i].user = u /\ rsvpCalls[i].event = e}
            rows == SelectSeq(rsvpRows, LAMBDA w : w.userId = u /\ w.eventId = e)
        IN C # {} =>
             /\ Len(rows) = 1
             /\ rows[1].status = rsvpCalls[Last(C)].status

\* C4: after any sequence of RSVP requests of an actor, handled one after the
\* other, the event's attendee list holds exactly one entry for the actor,
\* with the status of the actor's last request (interested when it gave
\* none); the entries of the other actors are unchanged by it.
C4_RsvpOneEntryLastStatus == C4_Express /\ C4_Service

C6_SelfActionSilent ==
    /\ \A r \in ReqIds :
         (OnPost(r) /\ reqs[r].actor = PostAuthor[reqs[r].id])
         => reqs[r].created = <<>> /\ reqs[r].emits = <<>>
    /\ \A i \in 1..Len(notifications) :
         notifications[i].sender # notifications[i].recipient

C6_Witness ==
    \E a \in ReqIds, b \in ReqIds :
        /\ reqs[a].kind = "like" /\ reqs[b].kind = "comment"
        /\ \A r \in {a, b} :
             /\ OnPost(r) /\ reqs[r].actor = PostAuthor[reqs[r].id]
             /\ Done(r) /\ reqs[r].code = 200 /\ reqs[r].saved
        /\ reqs[a].liked

\* a request that completed an action which notifies: a like toggle that
\* added the actor, or a comment
NotifyingDone(r) ==
    /\ Done(r) /\ reqs[r].code = 200 /\ OnPost(r)
    /\ \/ reqs[r].kind = "like" /\ reqs[r].liked
       \/ reqs[r].kind = "comment"

TotalCreated == LET RECURSIVE Sum(_)
                    Sum(k) == IF k = 0 THEN 0 ELSE Len(reqs[k].created) + Sum(k - 1)
                IN Sum(Len(reqs))

\* C7: a completed notifying action of a non-author creates exactly one
\* Notification, addressed to the post's author, sent by the actor, of type
\* like or comment, about that post and unread; the store holds exactly the
\* notifications the requests created.
C7_ExactlyOneNotification ==
    /\ \A r \in ReqIds :
         (NotifyingDone(r) /\ reqs[r].actor # PostAuthor[reqs[r].id])
         => /\ Len(reqs[r].created) = 1
            /\ LET n == reqs[r].created[1] IN
                 /\ n.recipient = PostAuthor[reqs[r].id]
                 /\ n.sender = reqs[r].actor
                 /\ n.type = reqs[r].kind
                 /\ n.entityType = "post" /\ n.entityId = reqs[r].id
                 /\ n.isRead = FALSE
                 /\ \E i \in 1..Len(notifications) : notifications[i] = n
    /\ Len(notifications) = TotalCreated

C7_Witness ==
    \E a \in ReqIds, b \in ReqIds :
        /\ reqs[a].kind = "like" /\ reqs[b].kind = "comment"
        /\ \A r \in {a, b} :
             NotifyingDone(r) /\ reqs[r].actor # PostAuthor[reqs[r].id]
        /\ Len(notifications) = 2

\* C8: a like toggle that takes the present-to-absent branch creates no
\* Notification and emits no push event; every notification of type like was
\* created by a like toggle that took the absent-to-present branch.
C8_UnlikeSilent ==
    /\ \A r \in ReqIds :
         (reqs[r].kind = "like" /\ reqs[r].hasLiked)
         => reqs[r].created = <<>> /\ reqs[r].emits = <<>>
    /\ \A i \in 1..Len(notifications) :
         notifications[i].type = "like"
         => \E r \in ReqIds :
              /\ reqs[r].kind = "like" /\ ~reqs[r].hasLiked
              /\ reqs[r].created = <<notifications[i]>>

C8_Witness ==
    \E r \in ReqIds :
        /\ reqs[r].kind = "like" /\ reqs[r].hasLiked
        /\ reqs[r].actor # PostAuthor[reqs[r].id]
        /\ Done(r) /\ reqs[r].code = 200 /\ reqs[r].saved /\ ~reqs[r].liked
        /\ ~Includes(posts[reqs[r].id].likes, reqs[r].actor)

\* C9: when Notification.create rejects during a like or comment of a
\* non-owner, the like or comment is committed all the same and the request
\* does not respond with a failure.
C9_NotifyFailureSwallowed ==
    \A r \in ReqIds :
        (Done(r) /\ reqs[r].createFailed)
        => reqs[r].saved /\ reqs[r].code = 200

\* C10: when the io lookup or the emit throws during a like or comment, the
\* request responds with success and the like or comment is committed, as
\* when the push succeeds.
C10_PushFailureSwallowed ==
    \A r \in ReqIds :
        (Done(r) /\ reqs[r].emitFailed)
        => reqs[r].saved /\ reqs[r].code = 200


\* the Notification documents a like or comment request created
CreatedIds ==
    UNION {{reqs[r].created[k].id : k \in DOMAIN reqs[r].created} : r \in ReqIds}

\* a Notification of the store before a step and the same one after it
SameNotification(i, j) == notifications[i].id = notifications'[j].id

\* C11: a stored Notification's isRead only ever changes from false to true,
\* and its other fields (recipient, sender, type, title, message, related
\* entity, and its _id and createdAt) stay as they were created for as long
\* as it is stored, under any sequence of mark-read, read-all, delete, like
\* and comment requests.
C11_IsReadOnlyForward ==
    [][\A i \in 1..Len(notifications), j \in 1..Len(notifications') :
          SameNotification(i, j)
          => /\ notifications[i].isRead => notifications'[j].isRead
             /\ [notifications'[j] EXCEPT !.isRead = FALSE]
                   = [notifications[i] EXCEPT !.isRead = FALSE]]_vars

\* a Notification created unread by a like or comment request is stored as
\* read after two mark-read or read-all requests, next to one that is not
C11_Witness ==
    /\ inbox.calls = 2 /\ inbox.op \in {"read", "read-all"} /\ inbox.code = 200
    /\ \E i \in 1..Len(notifications) :
         notifications[i].isRead /\ notifications[i].id \in CreatedIds
    /\ \E i \in 1..Len(notifications) : ~notifications[i].isRead


\* the step is the handling of a mark-read or delete request
ScopedRequest == inbox'.calls = inbox.calls + 1 /\ inbox'.op \in {"read", "delete"}

\* C12: a mark-read or delete request for an id under which the store holds
\* no Notification of the caller (it is another recipient's, or no stored
\* Notification has it) is answered 404 and leaves every stored Notification
\* as it was.
C12_RecipientScoped ==
    [][( /\ ScopedRequest
         /\ ~\E i \in 1..Len(notifications) :
               /\ notifications[i].id = inbox'.id
               /\ notifications[i].recipient = inbox'.actor )
       => inbox'.code = 404 /\ notifications' = notifications]_vars

\* the second inbox request of a run, a delete, was answered 404 for an unread
\* Notification of another recipient, which is still stored and unread
C12_Witness ==
    /\ inbox.calls = 2 /\ inbox.op = "delete" /\ inbox.code = 404
    /\ \E i \in 1..Len(notifications) :
         /\ notifications[i].id = inbox.id
         /\ notifications[i].recipient # inbox.actor
         /\ ~notifications[i].isRead
    /\ \A i \in 1..Len(notifications) : ~notifications[i].isRead


\* the step is the handling of a read-all request that the store accepted
ReadAllRequest ==
    inbox'.calls = inbox.calls + 1 /\ inbox'.op = "read-all" /\ inbox'.code = 200

\* C13: when a read-all request of recipient r has been handled, r has no
\* unread Notification; handling it a second time would leave the store as
\* the first time left it; and the Notifications of the other recipients are
\* as they were.
C13_ReadAllIdempotent ==
    [][ReadAllRequest
       => LET r == inbox'.actor IN
          /\ CountUnread(notifications', r) = 0
          /\ SetAllRead(notifications', r) = notifications'
          /\ Len(notifications') = Len(notifications)
          /\ \A i \in 1..Len(notifications) :
                notifications[i].recipient # r => notifications'[i] = notifications[i]]_vars

\* read-all of u1 was handled as the second inbox request of a run: both
\* Notifications of u1 are read, next to an unread one of u2
C13_Witness ==
    /\ inbox.calls = 2 /\ inbox.op = "read-all" /\ inbox.code = 200
    /\ inbox.actor = "u1"
    /\ CountTotal(notifications, "u1") >= 2
    /\ CountUnread(notifications, "u1") = 0
    /\ CountUnread(notifications, "u2") >= 1


\* the GET request was answered with success
FetchAnswered == fetch.pc = "done" /\ fetch.code = 200

Min(a, b) == IF a <= b THEN a ELSE b

Max(a, b) == IF a >= b THEN a ELSE b

\* ceil(a / b) for a >= 0 and b >= 1
CeilDiv(a, b) == (a + b - 1) \div b

Descending(items) ==
    \A a \in 1..Len(items), b \in 1..Len(items) :
        a < b => items[a].createdAt >= items[b].createdAt

\* what C14 says of every page, also of those past the end
C14_Original ==
    FetchAnswered
    => /\ fetch.pages = CeilDiv(fetch.total, fetch.limit)
       /\ fetch.count = Min(fetch.limit, fetch.total - (fetch.page - 1) * fetch.limit)
       /\ fetch.count = Len(fetch.items)
       /\ \A k \in 1..Len(fetch.items) : fetch.items[k].recipient = fetch.actor
       /\ Descending(fetch.items)

\* C14: in the response of GET /api/notifications for page >= 1 and
\* limit >= 1, pages = ceil(total / limit); count is the number of items
\* returned and equals min(limit, max(0, matched - (page - 1) * limit)), where
\* matched is the number of the recipient's Notifications stored at the find
\* query, and total = matched when the count query saw the same documents;
\* the items are the recipient's, in descending createdAt order, and they are
\* the page'th window of the sorted result.
C14_PageArithmetic ==
    FetchAnswered
    => LET matched == Len(fetch.found)
           offset == (fetch.page - 1) * fetch.limit
       IN /\ fetch.pages = CeilDiv(fetch.total, fetch.limit)
          /\ fetch.count = Len(fetch.items)
          /\ fetch.count = Min(fetch.limit, Max(0, matched - offset))
          /\ fetch.steady => fetch.total = matched
          /\ \A k \in 1..Len(fetch.items) :
                /\ fetch.items[k].recipient = fetch.actor
                /\ fetch.items[k] = fetch.found[offset + k]
          /\ Descending(fetch.found)

\* the second page of limit 1 of an inbox of two: one item, the older one
C14_Witness ==
    /\ FetchAnswered /\ fetch.steady
    /\ fetch.page = 2 /\ fetch.limit = 1
    /\ fetch.total = 2 /\ fetch.pages = 2 /\ fetch.count = 1
    /\ fetch.items[1].createdAt <= fetch.found[1].createdAt


\* a like request of a non-author that was answered with liked = true
LikedByOther(r) ==
    /\ reqs[r].kind = "like" /\ Done(r) /\ reqs[r].code = 200 /\ reqs[r].liked
    /\ OnPost(r) /\ reqs[r].actor # PostAuthor[reqs[r].id]

\* the like Notification of request r, as the handler creates it
IsLikeNotification(n, r) ==
    /\ n.type = "like" /\ n.sender = reqs[r].actor
    /\ n.recipient = PostAuthor[reqs[r].id]
    /\ n.entityType = "post" /\ n.entityId = reqs[r].id
    /\ ~n.isRead

LikePayload(r) == [type |-> "like", message |-> reqs[r].actor]

\* what C15 says of every successful like of a non-author, whatever else
\* runs meanwhile: at the response the author's unread count is one higher
\* than at the arrival
C15_Original ==
    \A r \in ReqIds :
        (LikedByOther(r) /\ reqs[r].watched)
        => /\ reqs[r].postUnread = reqs[r].preUnread + 1
           /\ \E i \in 1..Len(notifications) : IsLikeNotification(notifications[i], r)

\* the step in which like request r leaves its notification block
LikeNotifyStep(r) ==
    reqs[r].kind = "like" /\ reqs[r].pc = "notify" /\ reqs'[r].pc # "notify"

\* every successful like of a non-author has created one like Notification
\* and emitted one push event; when nothing else was handled while it ran,
\* the author's unread count at its response is one higher than at its
\* arrival
LikedHasNotified ==
    \A r \in ReqIds :
        LikedByOther(r)
        => /\ Len(reqs[r].created) = 1 /\ IsLikeNotification(reqs[r].created[1], r)
           /\ Len(reqs[r].emits) = 1
           /\ (reqs[r].watched /\ reqs[r].solo /\ inbox.calls = 0)
              => reqs[r].postUnread = reqs[r].preUnread + 1

\* C15: a successful like of a non-author A on B's post has gone through one
\* step that created a like Notification with sender A for that post, stored
\* for B and unread, that raised B's unread count by exactly one, and that
\* wrote the push event {type: like, message} to every connection then in B's
\* room; when nothing else was handled while the request ran, B's unread
\* count at the response is one higher than at the arrival.
C15_LikeNotifies ==
    [][/\ \A r \in ReqIds :
            LikeNotifyStep(r)
            => LET B == PostAuthor[reqs[r].id] IN
               /\ CountUnread(notifications', B) = CountUnread(notifications, B) + 1
               /\ Len(notifications') = Len(notifications) + 1
               /\ IsLikeNotification(notifications'[Len(notifications')], r)
               /\ \A s \in 1..Len(sockets) :
                     sockets'[s].got =
                        IF B \in sockets[s].rooms
                        THEN Append(sockets[s].got, LikePayload(r))
                        ELSE sockets[s].got
       /\ LikedHasNotified']_vars

\* u2's like of u1's post was answered while a connection was in u1's room:
\* u1's unread count went from 1 to 2 and the connection got the push event
C15_Witness ==
    \E r \in ReqIds :
        /\ LikedByOther(r) /\ reqs[r].watched
        /\ reqs[r].preUnread = 1 /\ reqs[r].postUnread = 2
        /\ CountUnread(notifications, PostAuthor[reqs[r].id]) = 2
        /\ reqs[r].emits[1].to # {}
        /\ \A s \in reqs[r].emits[1].to : sockets[s].got = <<LikePayload(r)>>


\* the step in which request r emits a push event
EmitStep(r) == Len(reqs'[r].emits) = Len(reqs[r].emits) + 1

LastEmit(r) == reqs'[r].emits[Len(reqs'[r].emits)]

\* C16: the push event of a notification is written to exactly the
\* connections that are in the room of the notification's recipient when it
\* is emitted: to every one of them, and to no connection that is only in
\* other rooms or in none; with no connection in that room the emit changes
\* no connection, raises no error and the handler goes on.
C16_DispatchTargets ==
    [][\A r \in ReqIds :
          EmitStep(r)
          => LET e == LastEmit(r)
                 recipient == notifications'[Len(notifications')].recipient
                 joined == {s \in 1..Len(sockets) : recipient \in sockets[s].rooms}
             IN /\ e.room = recipient /\ e.to = joined
                /\ \A s \in joined :
                      sockets'[s].got
                         = Append(sockets[s].got, [type |-> e.type, message |-> e.message])
                /\ \A s \in (1..Len(sockets)) \ joined : sockets'[s] = sockets[s]
                /\ Len(sockets') = Len(sockets)
                /\ ~reqs'[r].emitFailed
                /\ reqs'[r].pc = "done" => reqs'[r].code = 200]_vars

\* the push event of a like of u1's post was written to the connection in
\* u1's room and not to the connection that is in u2's room only
C16_Witness ==
    /\ Len(sockets) = 2
    /\ \E r \in ReqIds :
         /\ LikedByOther(r)
         /\ reqs[r].emits[1].to = {1}
         /\ sockets[1].got = <<LikePayload(r)>>
         /\ sockets[2].got = <<>>
         /\ sockets[2].rooms = {"u2"} /\ sockets[2].connected


\* the step in which request r gets the answer of Notification.create
CreateStep(r) == Len(reqs'[r].created) = Len(reqs[r].created) + 1

\* the step in which the find query of GET / is answered
FindStep == fetch.pc = "idle" /\ fetch'.pc = "total"

\* the step in which the recipient of the stored notification i deletes it
DeletedByRecipient(i) ==
    /\ inbox'.calls = inbox.calls + 1
    /\ inbox'.op = "delete" /\ inbox'.code = 200
    /\ inbox'.actor = notifications[i].recipient
    /\ inbox'.id = notifications[i].id

C18_ConnectionLifecycle ==
    [][/\ \A s \in 1..Len(sockets) :
            /\ \A uid \in Users :
                  (uid \in sockets'[s].rooms /\ uid \notin sockets[s].rooms)
                  => JoinUser(s, uid)
            /\ sockets[s].rooms = {} => sockets'[s].got = sockets[s].got
            /\ (sockets[s].connected /\ sockets'[s].connected)
               => sockets[s].rooms \subseteq sockets'[s].rooms
            /\ ~sockets[s].connected
               => sockets[s].rooms = {} /\ sockets'[s] = sockets[s]
       /\ \A s \in (1..Len(sockets')) \ (1..Len(sockets)) :
            sockets'[s].connected /\ sockets'[s].rooms = {} /\ sockets'[s].got = <<>>]_vars

\* a connection joined u1's room, was written the push event of a like and
\* disconnected; another one is connected, in no room, and was written
\* nothing
C18_Witness ==
    /\ Len(sockets) = 2
    /\ ~sockets[1].connected /\ sockets[1].rooms = {} /\ Len(sockets[1].got) = 1
    /\ sockets[2].connected /\ sockets[2].rooms = {} /\ sockets[2].got = <<>>
    /\ \E r \in ReqIds : LikedByOther(r) /\ reqs[r].emits[1].to = {1}


\* the target a stored bookmark points at: the reference of its type
TargetOf(row) ==
    CASE row.type = "post" -> row.post
      [] row.type = "event" -> row.event
      [] OTHER -> row.userBookmarked

\* whether the stored bookmark is one of user uid for target id of the type
BookmarkOf(row, uid, type, id) ==
    row.user = uid /\ row.type = type /\ TargetOf(row) = id

OneRowPerTarget ==
    /\ \A i, j \in 1..Len(bookmarks) :
          (/\ bookmarks[i].user = bookmarks[j].user
           /\ bookmarks[i].type = bookmarks[j].type
           /\ TargetOf(bookmarks[i]) = TargetOf(bookmarks[j])) => i = j
    /\ \A i, j \in 1..Len(favorites) :
          (/\ favorites[i].userId = favorites[j].userId
           /\ favorites[i].postId = favorites[j].postId) => i = j

CommentOf(r) == [user |-> reqs[r].actor, content |-> reqs[r].content]

\* the step in which the save() of comment request r succeeds
CommentSaveStep(r) ==
    reqs[r].kind = "comment" /\ ~reqs[r].saved /\ reqs'[r].saved

\* the comment requests on post p whose save() has succeeded
SavedComments(p) ==
    {r \in ReqIds : reqs[r].kind = "comment" /\ reqs[r].id = p /\ reqs[r].saved}

\* the stored comments of every post are those of the requests whose save()
\* succeeded, one each, and every comment request answered 200 is among them
AcknowledgedStored ==
    /\ \A p \in PostIds :
          /\ Len(posts[p].comments) = Cardinality(SavedComments(p))
          /\ \A r \in SavedComments(p) :
                \E k \in 1..Len(posts[p].comments) : posts[p].comments[k] = CommentOf(r)
    /\ \A r \in ReqIds :
          (reqs[r].kind = "comment" /\ reqs[r].pc = "done" /\ reqs[r].code = 200)
          => reqs[r].saved

\* C20: while a post exists its comment sequence only grows at the end.  A
\* step changes it only as the successful save() of one comment request, and
\* such a save() appends exactly that request's {user, content} to what is
\* stored, whichever other like or comment requests overlap it and whatever
\* fails; every comment request answered 200 has its comment stored; a
\* comment request whose content is missing (or empty, or over 1000
\* characters) is never answered 200, never saves and creates no
\* notification, and its steps change neither posts nor notifications.
C20_CommentsAppendOnly ==
    [][/\ \A p \in PostIds :
            \/ posts'[p].comments = posts[p].comments
            \/ \E r \in ReqIds : CommentSaveStep(r) /\ reqs[r].id = p
       /\ \A r \in ReqIds :
            CommentSaveStep(r)
            => /\ posts'[reqs[r].id].comments
                    = Append(posts[reqs[r].id].comments, CommentOf(r))
               /\ \A p \in PostIds \ {reqs[r].id} : posts'[p] = posts[p]
       /\ AcknowledgedStored'
       /\ \A r \in ReqIds :
            (reqs[r].kind = "comment" /\ ~ValidComment(CommentOf(r)))
            => /\ ~reqs'[r].saved /\ reqs'[r].created = <<>>
               /\ reqs'[r].pc = "done" => reqs'[r].code \in {400, 404}
               /\ reqs'[r] # reqs[r]
                  => posts' = posts /\ notifications' = notifications]_vars

\* two comment requests on the same post overlapped, the one that arrived
\* second saved first, both were answered 200, and the stored sequence holds
\* both comments in the order of the saves
C20_Witness ==
    /\ Len(reqs) = 2
    /\ \A r \in ReqIds :
          /\ reqs[r].kind = "comment" /\ reqs[r].id = "p1"
          /\ reqs[r].pc = "done" /\ reqs[r].code = 200 /\ ~reqs[r].solo
    /\ reqs[1].actor = "u1" /\ reqs[2].actor = "u2"
    /\ posts["p1"].comments = <<CommentOf(2), CommentOf(1)>>

\* the like notifications stored for post p and actor a
LikeNotifications(p, a) ==
    {i \in 1..Len(notifications) :
        /\ notifications[i].type = "like" /\ notifications[i].sender = a
        /\ notifications[i].entityId = p}

\* the save() of like request r took its actor from absent to present in the
\* stored like array: it pushed, and the array it pushed onto did not hold
\* the actor
JoinedLike(r) ==
    /\ reqs[r].kind = "like" /\ reqs[r].saved /\ ~reqs[r].hasLiked
    /\ ~Includes(SubSeq(reqs[r].postLikes, 1, Len(reqs[r].postLikes) - 1),
                 reqs[r].actor)

\* C21: once every request has been answered, the like notifications stored
\* for a post and an actor other than its author are no more than the saves
\* that took that actor from absent to present in the post's stored like
\* array.
C21_Original ==
    ~Busy
    => \A p \in PostIds : \A a \in Users \ {PostAuthor[p]} :
          Cardinality(LikeNotifications(p, a))
            <= Cardinality({r \in ReqIds :
                              JoinedLike(r) /\ reqs[r].id = p /\ reqs[r].actor = a})

\* like request r failed in post.save(): Notification.create and the emit had
\* run, and the request was answered without its save() having succeeded
FailedAtSave(r) ==
    /\ reqs[r].kind = "like" /\ reqs[r].pc = "done" /\ ~reqs[r].saved
    /\ reqs[r].created # <<>> /\ reqs[r].emits # <<>>

\* C22: of a like request that failed in post.save() no notification is in
\* the store, and its push event was written to no connection.
C22_Original ==
    \A r \in ReqIds :
        FailedAtSave(r)
        => /\ \A k \in 1..Len(reqs[r].created) :
                 \A i \in 1..Len(notifications) :
                     notifications[i].id # reqs[r].created[k].id
           /\ \A k \in 1..Len(reqs[r].emits) : reqs[r].emits[k].to = {}

\* C23: a like request answered 200 reports as liked whether its actor is in
\* the like array that was stored right after its save(), and as likesCount
\* the length of that array.
C23_Original ==
    \A r \in ReqIds :
        (reqs[r].kind = "like" /\ reqs[r].pc = "done" /\ reqs[r].code = 200)
        => /\ reqs[r].liked = Includes(reqs[r].postLikes, reqs[r].actor)
           /\ reqs[r].count = Len(reqs[r].postLikes)

\* the steps in which the count queries of GET / are answered
TotalStep == fetch.pc = "total" /\ fetch'.pc = "unread"

UnreadStep == fetch.pc = "unread" /\ fetch'.pc = "done" /\ fetch'.code = 200

\* the caller's Notifications stored now
CallersNow == {i \in 1..Len(notifications) : notifications[i].recipient = fetch.actor}

\* the caller's stored Notifications are the documents the find query saw
SameAsFound == {notifications[i].id : i \in CallersNow}
                  = {fetch.found[k].id : k \in 1..Len(fetch.found)}

\* C24: every response of GET /api/notifications has unreadCount <= total and
\* count <= total, and its unreadCount is the number of the caller's unread
\* Notifications stored when the unread count query ran, whatever is
\* created, marked read or deleted while the request runs.
C24_Original ==
    [][/\ FetchAnswered' => /\ fetch'.unreadCount <= fetch'.total
                             /\ fetch'.count <= fetch'.total
       /\ UnreadStep
          => fetch'.unreadCount
               = Cardinality({i \in CallersNow : ~notifications[i].isRead})]_vars

\* C24: each number of the response is exact for its own query: count is
\* the number of items returned and at most the number of the caller's
\* Notifications stored at the find query, total is their number at the
\* total query and unreadCount the number of unread ones at the unread query
\* (so unreadCount is at most their number then); unreadCount <= total and
\* count <= total hold when the caller's stored Notifications are the same
\* documents at the three queries, read or not.
C24_ThreeQueries ==
    [][/\ FindStep
          => /\ Len(fetch'.found)
                  = Cardinality({i \in 1..Len(notifications) :
                                    notifications[i].recipient = fetch'.actor})
             /\ Len(fetch'.items) <= Len(fetch'.found)
       /\ TotalStep
          => /\ fetch'.total = Cardinality(CallersNow)
             /\ fetch'.steady = SameAsFound
       /\ UnreadStep
          => /\ fetch'.unreadCount
                  = Cardinality({i \in CallersNow : ~notifications[i].isRead})
             /\ fetch'.unreadCount <= Cardinality(CallersNow)
             /\ fetch'.count = Len(fetch.items)
             /\ fetch'.count <= Len(fetch.found)
             /\ (fetch.steady /\ SameAsFound)
                => /\ fetch'.unreadCount <= fetch'.total
                   /\ fetch'.count <= fetch'.total]_vars

\* u1's fetch found the one Notification of the inbox, counted two after
\* u2's like had created one, and counted the unread ones after u1 had
\* deleted one: total is larger than what is stored when the response is
\* sent
C24_Witness ==
    /\ FetchAnswered /\ fetch.actor = "u1"
    /\ Len(fetch.found) = 1 /\ fetch.count = 1 /\ fetch.total = 2
    /\ inbox.op = "delete" /\ inbox.code = 200 /\ inbox.actor = "u1"
    /\ CountTotal(notifications, "u1") = 1
    /\ fetch.unreadCount = CountUnread(notifications, "u1")

====
